---- MODULE Spec2Model ----
(***************************************************************************)
(* A model of wechat_reader.py: the WeChatDatabaseV4 reader and the        *)
(* command dispatch of main().  One run of the model is one invocation of  *)
(* the program on one storage root.                                        *)
(***************************************************************************)
EXTENDS Integers, Sequences, FiniteSets, TLC

VARIABLES
    fs,            \* the storage root: files, directories, files sqlite3.connect cannot open
    store,         \* contents of the contact store and of the shard files
    cmd,           \* sys.argv[1]
    pc,            \* position of main() in its command branch
    contact_db,    \* WeChatDatabaseV4.contact_db   (NoPath models None)
    session_db,    \* WeChatDatabaseV4.session_db   (NoPath models None)
    message_dbs,   \* WeChatDatabaseV4.message_dbs  (paths of the open shard connections)
    initialized,   \* WeChatDatabaseV4._initialized
    contacts_map,  \* WeChatDatabaseV4.contacts_map (wxid -> is_chatroom)
    conns,         \* connections opened by sqlite3.connect and not closed yet
    success,       \* value returned by init_database
    trace,         \* what the last reader call did: queries tried, errors logged, exception raised
    out            \* value produced by the last reader call

vars == <<fs, store, cmd, pc, contact_db, session_db, message_dbs, initialized,
          contacts_map, conns, success, trace, out>>

----------------------------------------------------------------------------
(* Bounds of the model. *)

MaxIdx == 3          \* message_<i>.db files are drawn from indices 0..MaxIdx-1
MaxRows == 2         \* rows per conversation table
MaxTime == 2         \* create_time values are drawn from 1..MaxTime (and NULL)
MaxLimit == 2        \* limit and offset arguments are drawn from -1..MaxLimit
MaxPayload == 2      \* length of a raw message_content payload
MaxContactRows == 1  \* rows of the contact table

----------------------------------------------------------------------------
(* Strings.  A string is a sequence of characters: Len, \o and SubSeq      *)
(* apply to it.                                                            *)

NoPath == ""

StartsWith(s, p) == Len(s) >= Len(p) /\ SubSeq(s, 1, Len(p)) = p

EndsWith(s, p) == Len(s) >= Len(p) /\ SubSeq(s, Len(s) - Len(p) + 1, Len(s)) = p

CharAt(s, i) == SubSeq(s, i, i)

Range(f) == {f[i] : i \in DOMAIN f}

Perms(S) == {p \in [1..Cardinality(S) -> S] : Range(p) = S}

----------------------------------------------------------------------------
(* The storage root. *)

Join(dir, name) == IF dir = "" THEN name ELSE dir \o "/" \o name

Exists(path) == path \in fs.files \cup fs.dirs

\* sqlite3.connect(path) raises sqlite3.OperationalError
ConnectRaises(path) == path \in fs.bad

ContactCandidates ==
    <<Join("contact", "contact.db"), "contact.db", "MicroMsg.db", Join("Msg", "MicroMsg.db")>>

SessionCandidates == <<Join("session", "session.db"), "session.db">>

RECURSIVE FirstExistingFrom(_, _)
FirstExistingFrom(paths, i) ==
    IF i > Len(paths) THEN NoPath
    ELSE IF Exists(paths[i]) THEN paths[i]
    ELSE FirstExistingFrom(paths, i + 1)

FirstExisting(paths) == FirstExistingFrom(paths, 1)

RangeCap == 100

MessageName(i) == "message_" \o ToString(i) \o ".db"

\* for i in range(100): if exists(message_<i>.db) ... else break
RECURSIVE EnumerateFrom(_, _)
EnumerateFrom(dir, i) ==
    IF i < RangeCap /\ Exists(Join(dir, MessageName(i)))
    THEN <<Join(dir, MessageName(i))>> \o EnumerateFrom(dir, i + 1)
    ELSE <<>>

IsMsgShardName(filename) == StartsWith(filename, "MSG") /\ EndsWith(filename, ".db")

\* names os.listdir(dir) returns, as a set
ListDir(dir) ==
    {SubSeq(p, Len(dir) + 2, Len(p)) : p \in {q \in fs.files : StartsWith(q, dir \o "/")}}

\* the shard files init_database connects to, in order; listing is the
\* order in which os.listdir returned the names of Msg/
ShardCandidates(listing) ==
    LET flat == Exists("message_0.db")
    IN  IF flat THEN EnumerateFrom("", 0)
        ELSE IF Exists("message") THEN EnumerateFrom("message", 0)
        ELSE IF Exists("Msg")
             THEN [i \in 1..Len(SelectSeq(listing, IsMsgShardName)) |->
                       Join("Msg", SelectSeq(listing, IsMsgShardName)[i])]
             ELSE <<>>

\* the connections opened before the first connect that raises
RECURSIVE OpenPrefix(_)
OpenPrefix(paths) ==
    IF paths = <<>> \/ ConnectRaises(Head(paths)) THEN <<>>
    ELSE <<Head(paths)>> \o OpenPrefix(Tail(paths))

\* init_database, given the order of os.listdir: the fields it leaves and
\* whether the try block raised
InitDatabaseResult(listing) ==
    LET cpath  == FirstExisting(ContactCandidates)
        cRaise == cpath # NoPath /\ ConnectRaises(cpath)
        spath  == FirstExisting(SessionCandidates)
        sRaise == ~cRaise /\ spath # NoPath /\ ConnectRaises(spath)
        cands  == ShardCandidates(listing)
        opened == IF cRaise \/ sRaise THEN <<>> ELSE OpenPrefix(cands)
        raised == cRaise \/ sRaise \/ Len(opened) < Len(cands)
        cdb    == IF cRaise THEN NoPath ELSE cpath
    IN  [contact_db  |-> cdb,
         session_db  |-> IF cRaise \/ sRaise THEN NoPath ELSE spath,
         message_dbs |-> opened,
         raised      |-> raised,
         initialized |-> ~raised /\ cdb # NoPath]

NoTrace == [op |-> "none"]

InitDatabase ==
    /\ pc = "start"
    /\ \E listing \in Perms(ListDir("Msg")) :
         LET r == InitDatabaseResult(listing)
         IN  /\ contact_db' = r.contact_db
             /\ session_db' = r.session_db
             /\ message_dbs' = r.message_dbs
             /\ initialized' = r.initialized
             /\ success' = r.initialized
             /\ conns' = ({r.contact_db, r.session_db} \ {NoPath}) \cup Range(r.message_dbs)
             /\ trace' = [op |-> "init_database", raised |-> r.raised]
    /\ pc' = "inited"
    /\ UNCHANGED <<fs, store, cmd, contacts_map, out>>

----------------------------------------------------------------------------
(* SQLite values and the operators of its query language that the queries  *)
(* of the reader use.                                                      *)

NullV == [t |-> "null"]
IntV(n) == [t |-> "int", v |-> n]
TextV(s) == [t |-> "text", v |-> s]
BlobV(b) == [t |-> "blob", v |-> b]

IsNull(x) == x.t = "null"

\* Python truthiness of a fetched column value, as used by `x or y`
Truthy(x) ==
    CASE x.t = "null" -> FALSE
      [] x.t = "int"  -> x.v # 0
      [] OTHER        -> Len(x.v) > 0

\* the characters of the identifiers of the model, in byte order
Ascii ==
    " -./0123456789@ABCDEFGHIJKLMNOPQRSTUVWXYZ_abcdefghijklmnopqrstuvwxyz"

Uppers == "ABCDEFGHIJKLMNOPQRSTUVWXYZ"
Lowers == "abcdefghijklmnopqrstuvwxyz"

Code(c) == CHOOSE i \in 1..Len(Ascii) : CharAt(Ascii, i) = c

Lower(c) ==
    IF \E i \in 1..Len(Uppers) : CharAt(Uppers, i) = c
    THEN CharAt(Lowers, CHOOSE i \in 1..Len(Uppers) : CharAt(Uppers, i) = c)
    ELSE c

\* BINARY collation: bytewise comparison
RECURSIVE StrLeq(_, _)
StrLeq(a, b) ==
    IF a = "" THEN TRUE
    ELSE IF b = "" THEN FALSE
    ELSE IF CharAt(a, 1) = CharAt(b, 1) THEN StrLeq(Tail(a), Tail(b))
    ELSE Code(CharAt(a, 1)) < Code(CharAt(b, 1))

TypeRank(x) ==
    CASE x.t = "null" -> 0
      [] x.t = "int"  -> 1
      [] x.t = "text" -> 2
      [] OTHER        -> 3

\* the order ORDER BY sorts by: NULL first, then numbers, then text
SqlLeq(a, b) ==
    IF TypeRank(a) # TypeRank(b) THEN TypeRank(a) < TypeRank(b)
    ELSE CASE a.t = "null" -> TRUE
           [] a.t = "int"  -> a.v <= b.v
           [] a.t = "text" -> StrLeq(a.v, b.v)
           [] OTHER        -> TRUE

\* the LIKE operator: % matches any run, _ any one character, letters
\* match without regard to case
RECURSIVE Like(_, _)
Like(s, pat) ==
    IF pat = "" THEN s = ""
    ELSE IF CharAt(pat, 1) = "%"
         THEN Like(s, Tail(pat)) \/ (s # "" /\ Like(Tail(s), pat))
    ELSE IF s = "" THEN FALSE
    ELSE IF CharAt(pat, 1) = "_" THEN Like(Tail(s), Tail(pat))
    ELSE Lower(CharAt(s, 1)) = Lower(CharAt(pat, 1)) /\ Like(Tail(s), Tail(pat))

\* a comparison with NULL is not true
SqlTextNe(x, s) == x.t = "text" /\ x.v # s
SqlNotLike(x, pat) == x.t = "text" /\ ~Like(x.v, pat)
SqlLike(x, pat) == x.t = "text" /\ Like(x.v, pat)

\* the results a query may return for ORDER BY key (ASC or DESC): the rows
\* in an order sorted by the column key; the order of rows with equal keys is not
\* specified
OrderedBy(rows, key, desc) ==
    LET n == Len(rows)
        ok(p) == \A i \in 1..n : \A j \in 1..n :
                    i < j => IF desc THEN SqlLeq(rows[p[j]][key], rows[p[i]][key])
                                     ELSE SqlLeq(rows[p[i]][key], rows[p[j]][key])
    IN  {[i \in 1..n |-> rows[p[i]]] : p \in {q \in Perms(1..n) : ok(q)}}

----------------------------------------------------------------------------
(* The contact store: get_contacts and get_groups.                         *)
(* store.contact = [schema, rows, newFault, oldFault]; schema is "v4"      *)
(* (table contact with local_type, nick_name), "old" (table Contact with   *)
(* Type, NickName) or "none"; a row is [username, type, nick, remark] of   *)
(* SQLite values; newFault and oldFault are what the environment does to   *)
(* the WeChat 4.0 query and to the older query.                            *)

\* what the environment may do to one query
Faults == {"none", "locked", "corrupt"}

\* outcome of the WeChat 4.0 query: "nosuch" and "locked" are
\* sqlite3.OperationalError, "corrupt" is sqlite3.DatabaseError
NewQueryOutcome(schema, fault) ==
    IF fault # "none" THEN fault ELSE IF schema = "v4" THEN "ok" ELSE "nosuch"

OldQueryOutcome(schema, fault) ==
    IF fault # "none" THEN fault ELSE IF schema = "old" THEN "ok" ELSE "nosuch"

\* except sqlite3.OperationalError
IsOperationalError(outcome) == outcome \in {"nosuch", "locked"}

\* WHERE (local_type=1 OR local_type=2 OR local_type=5)
NewContactFilter(row) == row.type.t = "int" /\ row.type.v \in {1, 2, 5}

\* WHERE Type != 4 AND UserName NOT LIKE 'gh_%' AND UserName != ... 
OldContactFilter(row) ==
    /\ row.type.t = "int" /\ row.type.v # 4
    /\ SqlNotLike(row.username, "gh_%")
    /\ SqlTextNe(row.username, "filehelper")
    /\ SqlTextNe(row.username, "floatbottle")
    /\ SqlTextNe(row.username, "medianote")
    /\ SqlTextNe(row.username, "fmessage")

\* WHERE username LIKE '%@chatroom'
GroupFilter(row) == SqlLike(row.username, "%@chatroom")

\* ORDER BY nick_name / ORDER BY NickName
NickKey == "nick"

\* _get_chatroom_member_count
MemberCount(chatroom_name) == 0

\* Contact(wxid=..., nickname=row nick or wxid, remark=row remark or nick or wxid, ...);
\* alias and small_head_img_url are copied from the row and not modelled
MakeContact(row, is_chatroom, member_count) ==
    LET wxid == row.username.v
    IN  [wxid         |-> wxid,
         nickname     |-> IF Truthy(row.nick) THEN row.nick.v ELSE wxid,
         remark       |-> IF Truthy(row.remark) THEN row.remark.v
                          ELSE IF Truthy(row.nick) THEN row.nick.v ELSE wxid,
         is_chatroom  |-> is_chatroom,
         member_count |-> member_count]

\* the row loop: wxid.endswith raises on a username that is not a string,
\* which ends the loop with the contacts built so far
RECURSIVE RowLoop(_, _)
RowLoop(rows, asGroup) ==
    IF rows = <<>> \/ Head(rows).username.t # "text" THEN <<>>
    ELSE LET wxid == Head(rows).username.v
         IN  <<IF asGroup THEN MakeContact(Head(rows), TRUE, MemberCount(wxid))
               ELSE MakeContact(Head(rows), EndsWith(wxid, "@chatroom"), 0)>>
             \o RowLoop(Tail(rows), asGroup)

\* self.contacts_map[wxid] = contact, for each contact in order
RECURSIVE Register(_, _)
Register(map, contacts) ==
    IF contacts = <<>> THEN map
    ELSE LET c == Head(contacts)
         IN  Register([k \in DOMAIN map \cup {c.wxid} |-> IF k = c.wxid THEN c ELSE map[k]],
                      Tail(contacts))

\* the rows of the contact table, if it has the columns of the schema
TableRows(schema) == IF store.contact.schema = schema THEN store.contact.rows ELSE <<>>

\* one run of the try-new-then-old pattern shared by get_contacts and
\* get_groups: the list returned and what happened on the way
ListRun(op, o1, oldTried, o2, rows, asGroup) ==
    LET ok == (o1 = "ok" \/ (oldTried /\ o2 = "ok"))
        built == IF ok THEN RowLoop(rows, asGroup) ELSE <<>>
    IN  [contacts |-> built,
         trace |-> [op |-> op, newOutcome |-> o1, oldTried |-> oldTried,
                    logged |-> ~ok \/ Len(built) < Len(rows), raised |-> FALSE]]

\* the old query runs in the handler of sqlite3.OperationalError
FallsBack(o1) == IsOperationalError(o1)

\* newRows and oldRows are the rows the WHERE clauses of the two queries select
ListRuns(op, newRows, oldRows, asGroup) ==
    LET c == store.contact
        o1 == NewQueryOutcome(c.schema, c.newFault)
        o2 == OldQueryOutcome(c.schema, c.oldFault)
    IN  IF o1 = "ok"
        THEN {ListRun(op, o1, FALSE, "none", rs, asGroup) :
                 rs \in OrderedBy(newRows, NickKey, FALSE)}
        ELSE IF FallsBack(o1)
        THEN IF o2 = "ok"
             THEN {ListRun(op, o1, TRUE, o2, rs, asGroup) :
                      rs \in OrderedBy(oldRows, NickKey, FALSE)}
             ELSE {ListRun(op, o1, TRUE, o2, <<>>, asGroup)}
        ELSE {ListRun(op, o1, FALSE, "none", <<>>, asGroup)}

GetContactsRuns ==
    IF contact_db = NoPath
    THEN {[contacts |-> <<>>, trace |-> [op |-> "get_contacts", newOutcome |-> "none",
                                         oldTried |-> FALSE,
                                         logged |-> FALSE, raised |-> FALSE]]}
    ELSE ListRuns("get_contacts",
                  SelectSeq(TableRows("v4"), NewContactFilter),
                  SelectSeq(TableRows("old"), OldContactFilter), FALSE)

\* the old query of get_groups has the same WHERE clause as the new one
GetGroupsRuns ==
    IF contact_db = NoPath
    THEN {[contacts |-> <<>>, trace |-> [op |-> "get_groups", newOutcome |-> "none",
                                         oldTried |-> FALSE,
                                         logged |-> FALSE, raised |-> FALSE]]}
    ELSE ListRuns("get_groups",
                  SelectSeq(TableRows("v4"), GroupFilter),
                  SelectSeq(TableRows("old"), GroupFilter), TRUE)

GetContacts ==
    /\ pc = "inited" /\ success /\ cmd \in {"contacts", "messages"}
    /\ \E r \in GetContactsRuns :
         /\ out' = r.contacts
         /\ trace' = r.trace
         /\ contacts_map' = Register(contacts_map, r.contacts)
    /\ pc' = IF cmd = "contacts" THEN "emit" ELSE "contacts_loaded"
    /\ UNCHANGED <<fs, store, cmd, contact_db, session_db, message_dbs, initialized,
                   conns, success>>

GetGroups ==
    /\ \/ pc = "inited" /\ success /\ cmd = "groups"
       \/ pc = "contacts_loaded"
    /\ \E r \in GetGroupsRuns :
         /\ out' = r.contacts
         /\ trace' = r.trace
         /\ contacts_map' = Register(contacts_map, r.contacts)
    /\ pc' = IF cmd = "groups" THEN "emit" ELSE "groups_loaded"
    /\ UNCHANGED <<fs, store, cmd, contact_db, session_db, message_dbs, initialized,
                   conns, success>>

----------------------------------------------------------------------------
(* The content decoder of the row loop of get_messages.                    *)
(* A BLOB is a string of bytes; the bytes of the model are "Z", the magic  *)
(* that opens a compressed frame, "X", a byte that is not valid UTF-8, and *)
(* the letters, which encode themselves.                                   *)

FrameMagic == "Z"
InvalidByte == "X"

\* dctx.decompress(content): the payload of a frame, or ZstdError
IsFrame(bytes) == StartsWith(bytes, FrameMagic)
Decompress(bytes) == Tail(bytes)

\* bytes.decode('utf-8') raises UnicodeDecodeError on an invalid byte
DecodeRaises(bytes) == \E i \in 1..Len(bytes) : CharAt(bytes, i) = InvalidByte

\* bytes.decode('utf-8', errors='ignore') drops the invalid bytes
RECURSIVE DecodeIgnore(_)
DecodeIgnore(bytes) ==
    IF bytes = "" THEN ""
    ELSE IF CharAt(bytes, 1) = InvalidByte THEN DecodeIgnore(Tail(bytes))
    ELSE CharAt(bytes, 1) \o DecodeIgnore(Tail(bytes))

\* a decoder whose fallback decodes strictly
DecodeContent_Strict(raw, zstd) ==
    IF raw.t = "blob"
    THEN IF zstd /\ IsFrame(raw.v) /\ ~DecodeRaises(Decompress(raw.v))
         THEN [raised |-> FALSE, content |-> TextV(Decompress(raw.v))]
         ELSE [raised |-> DecodeRaises(raw.v),
               content |-> TextV(IF raw.v # "" THEN DecodeIgnore(raw.v) ELSE "")]
    ELSE [raised |-> FALSE, content |-> raw]

\* lines 435-443: the value of the local `content` after the isinstance
\* block, and whether an exception left the block
DecodeContent(raw, zstd) ==
    IF raw.t = "blob"
    THEN IF zstd /\ IsFrame(raw.v) /\ ~DecodeRaises(Decompress(raw.v))
         THEN [raised |-> FALSE, content |-> TextV(Decompress(raw.v))]
         ELSE [raised |-> FALSE,
               content |-> TextV(IF raw.v # "" THEN DecodeIgnore(raw.v) ELSE "")]
    ELSE [raised |-> FALSE, content |-> raw]

\* content=content if isinstance(content, str) else ''
ContentField(content) == IF content.t = "text" THEN content ELSE TextV("")

----------------------------------------------------------------------------
(* The shards: get_messages.                                               *)
(* store.shards[path] = [table, name2id, fault, rows]: the conversation    *)
(* table the shard holds, whether it has the Name2Id table, what fails     *)
(* when it is queried, and the rows of the conversation table, each        *)
(* [local_id, server_id, local_type, sender,      *)
(* create_time, content] of SQLite values (sender is the Name2Id.user_name *)
(* the join finds for real_sender_id).                                     *)

Usernames == {"alice", "bob"}

\* hashlib.md5(username.encode("utf-8")).hexdigest()
Md5Hex(username) ==
    CASE username = "alice" -> "6384e2b2184bcbf58eccf10ca7a6563c"
      [] username = "bob"   -> "9f9d51bc70ef21ca5c14f307980a29d8"

TableName(username) == "Msg_" \o Md5Hex(username)

HexDigits == "abcdef0123456789"

\* re.match(r'^Msg_[a-f0-9]{32}$', table_name)
ValidTableName(name) ==
    /\ Len(name) = 36
    /\ StartsWith(name, "Msg_")
    /\ \A i \in 5..36 : \E j \in 1..Len(HexDigits) : CharAt(name, i) = CharAt(HexDigits, j)

\* what the environment does to the queries on one shard (the field fault):
\* nothing; the table probe raises; the join query raises OperationalError
\* and the reduced query succeeds; the join query and the reduced query
\* both raise
ShardFaults == {"none", "probe", "join", "both"}

\* ORDER BY create_time
CreateTimeKey == "create_time"

\* WHERE create_time >= ?   (only when start_time > 0)
SinceFilter(rows, start_time) ==
    IF start_time > 0
    THEN SelectSeq(rows, LAMBDA r : r.create_time.t = "int" /\ r.create_time.v >= start_time)
    ELSE rows

\* a query that applies OFFSET and no LIMIT
LimitOffset_Unlimited(rows, limit, offset) ==
    SubSeq(rows, (IF offset < 0 THEN 0 ELSE offset) + 1, Len(rows))

\* LIMIT ? OFFSET ?: a negative LIMIT is no limit, a negative OFFSET is 0
LimitOffset(rows, limit, offset) ==
    LET off  == IF offset < 0 THEN 0 ELSE offset
        rest == SubSeq(rows, off + 1, Len(rows))
    IN  IF limit < 0 \/ limit >= Len(rest) THEN rest ELSE SubSeq(rest, 1, limit)

\* _get_my_wxid: the username of info.json, or '' without one
GetMyWxid == store.my_wxid

\* Message(...) built from one fetched row
MakeMessage(row, joined, my_wxid, username, zstd) ==
    [local_id        |-> row.local_id,
     server_id       |-> IF Truthy(row.server_id) THEN row.server_id ELSE IntV(0),
     msg_type        |-> row.local_type,
     sender_username |-> IF joined /\ Truthy(row.sender) THEN row.sender.v ELSE "",
     create_time     |-> row.create_time,
     content         |-> ContentField(DecodeContent(row.content, zstd).content),
     is_sender       |-> joined /\ row.sender = TextV(my_wxid),
     talker          |-> username]

\* the rows of one shard for which the row loop raises
LoopRaises(rows, zstd) == \E i \in 1..Len(rows) : DecodeContent(rows[i].content, zstd).raised

\* the message lists one shard may contribute; an exception anywhere in
\* the body of the loop over the shards skips what is left of that shard
ShardRuns(path, username, limit, offset, start_time) ==
    LET sh == store.shards[path]
        joinOk == sh.fault = "none" /\ sh.name2id
        skipped == \/ sh.fault \in {"probe", "both"}
                   \/ sh.table # TableName(username)
        fetched(rs) == LimitOffset(rs, limit, offset)
        upTo(rows) == IF LoopRaises(rows, store.zstd)
                      THEN (CHOOSE i \in 1..Len(rows) :
                               /\ DecodeContent(rows[i].content, store.zstd).raised
                               /\ \A j \in 1..(i - 1) :
                                     ~DecodeContent(rows[j].content, store.zstd).raised) - 1
                      ELSE Len(rows)
    IN  IF skipped THEN {<<>>}
        ELSE {[i \in 1..upTo(fetched(rs)) |->
                  MakeMessage(fetched(rs)[i], joinOk, GetMyWxid, username, store.zstd)] :
                 rs \in OrderedBy(SinceFilter(sh.rows, start_time), CreateTimeKey, TRUE)}

\* all_messages after the loop over self.message_dbs
RECURSIVE Gather(_, _, _, _, _)
Gather(paths, username, limit, offset, start_time) ==
    IF paths = <<>> THEN {<<>>}
    ELSE {first \o rest :
             first \in ShardRuns(Head(paths), username, limit, offset, start_time),
             rest \in Gather(Tail(paths), username, limit, offset, start_time)}

\* list.sort(key=...) is stable: insert x after the elements that are not greater
RECURSIVE InsertSorted(_, _)
InsertSorted(sorted, x) ==
    IF sorted = <<>> THEN <<x>>
    ELSE IF x.create_time.v < Head(sorted).create_time.v THEN <<x>> \o sorted
    ELSE <<Head(sorted)>> \o InsertSorted(Tail(sorted), x)

RECURSIVE SortFrom(_, _)
SortFrom(sorted, todo) ==
    IF todo = <<>> THEN sorted ELSE SortFrom(InsertSorted(sorted, Head(todo)), Tail(todo))

\* a get_messages that returns the concatenation as gathered
SortByCreateTime_Unsorted(msgs) == msgs

\* all_messages.sort(key=lambda m: m.create_time)
SortByCreateTime(msgs) == IF Len(msgs) < 2 THEN msgs ELSE SortFrom(<<>>, msgs)

\* comparing None with None or with an int raises TypeError
SortRaises(msgs) == Len(msgs) >= 2 /\ \E i \in 1..Len(msgs) : IsNull(msgs[i].create_time)

\* get_messages: the values it may return, or raised
GetMessagesRuns(username, limit, offset, start_time) ==
    IF message_dbs = <<>> \/ ~ValidTableName(TableName(username))
    THEN {[raised |-> FALSE, messages |-> <<>>, total |-> 0]}
    ELSE {IF SortRaises(all) THEN [raised |-> TRUE, messages |-> <<>>, total |-> 0]
          ELSE [raised |-> FALSE, messages |-> SortByCreateTime(all), total |-> Len(all)] :
             all \in Gather(message_dbs, username, limit, offset, start_time)}

Limits == -1..MaxLimit
Offsets == 0..1
StartTimes == {0, MaxTime}

GetMessages ==
    /\ pc = "groups_loaded"
    /\ \E username \in Usernames, limit \in Limits, offset \in Offsets,
          start_time \in StartTimes :
         \E r \in GetMessagesRuns(username, limit, offset, start_time) :
            /\ out' = [messages |-> r.messages, total |-> r.total]
            /\ trace' = [op |-> "get_messages", raised |-> r.raised,
                         username |-> username, limit |-> limit, offset |-> offset,
                         start_time |-> start_time]
            /\ pc' = IF r.raised THEN "crashed" ELSE "emit"
    /\ UNCHANGED <<fs, store, cmd, contact_db, session_db, message_dbs, initialized,
                   contacts_map, conns, success>>

----------------------------------------------------------------------------
(* get_status, close and the command branches of main().                   *)

\* get_status
StatusDict ==
    [initialized    |-> initialized,
     hasContactDb   |-> contact_db # NoPath,
     hasSessionDb   |-> session_db # NoPath,
     messageDbCount |-> Len(message_dbs),
     contactCount   |-> Cardinality(DOMAIN contacts_map),
     dbVersion      |-> 4]

\* the init and status branches: print the status after init_database
GetStatus ==
    /\ pc = "inited" /\ cmd \in {"init", "status"}
    /\ out' = StatusDict
    /\ trace' = [op |-> "get_status", raised |-> FALSE]
    /\ pc' = "closing"
    /\ UNCHANGED <<fs, store, cmd, contact_db, session_db, message_dbs, initialized,
                   contacts_map, conns, success>>

\* Message._get_type_name
TypeName(msg_type) ==
    IF msg_type.t # "int" THEN "unknown"
    ELSE CASE msg_type.v = 1     -> "text"
           [] msg_type.v = 3     -> "image"
           [] msg_type.v = 34    -> "voice"
           [] msg_type.v = 42    -> "contact"
           [] msg_type.v = 43    -> "video"
           [] msg_type.v = 47    -> "emoji"
           [] msg_type.v = 48    -> "location"
           [] msg_type.v = 49    -> "link"
           [] msg_type.v = 10000 -> "system"
           [] msg_type.v = 10002 -> "revoke"
           [] OTHER              -> "unknown"

\* the sender name of a message written by the local user
MeSentinel == "me"

\* Contact.to_dict
ContactDict(c) ==
    [id          |-> c.wxid,
     name        |-> IF c.remark # "" THEN c.remark
                     ELSE IF c.nickname # "" THEN c.nickname ELSE c.wxid,
     type        |-> IF c.is_chatroom THEN "group" ELSE "friend",
     memberCount |-> c.member_count]

\* Message.to_dict with the contact_map of main()
MessageDict(m) ==
    [id        |-> "msg_" \o (IF m.local_id.t = "int" THEN ToString(m.local_id.v) ELSE "None"),
     chatId    |-> m.talker,
     sender    |-> IF m.is_sender THEN MeSentinel
                   ELSE IF m.sender_username \in DOMAIN contacts_map
                        THEN IF contacts_map[m.sender_username].remark # ""
                             THEN contacts_map[m.sender_username].remark
                             ELSE contacts_map[m.sender_username].nickname
                        ELSE m.sender_username,
     content   |-> m.content.v,
     timestamp |-> m.create_time.v * 1000,
     type      |-> TypeName(m.msg_type),
     isMe      |-> m.is_sender]

\* self.create_time * 1000 raises TypeError when create_time is None
ToDictRaises(messages) == \E i \in 1..Len(messages) : IsNull(messages[i].create_time)

\* the print(json.dumps(...)) of the contacts, groups and messages branches
Emit ==
    /\ \/ pc = "emit"
       \/ pc = "inited" /\ ~success /\ cmd \in {"contacts", "groups", "messages"}
    /\ IF pc = "inited"
       THEN /\ out' = IF cmd = "messages"
                      THEN [messages |-> <<>>, total |-> 0, hasMore |-> FALSE]
                      ELSE <<>>
            /\ pc' = "closing"
            /\ UNCHANGED trace
       ELSE CASE cmd = "contacts" ->
                   /\ out' = [i \in 1..Len(SelectSeq(out, LAMBDA c : ~c.is_chatroom)) |->
                                 ContactDict(SelectSeq(out, LAMBDA c : ~c.is_chatroom)[i])]
                   /\ pc' = "closing"
                   /\ UNCHANGED trace
              [] cmd = "groups" ->
                   /\ out' = [i \in 1..Len(out) |-> ContactDict(out[i])]
                   /\ pc' = "closing"
                   /\ UNCHANGED trace
              [] OTHER ->
                   IF ToDictRaises(out.messages)
                   THEN /\ pc' = "crashed"
                        /\ trace' = [op |-> "to_dict", raised |-> TRUE]
                        /\ UNCHANGED out
                   ELSE /\ out' = [messages |-> [i \in 1..Len(out.messages) |->
                                                    MessageDict(out.messages[i])],
                                   total    |-> out.total,
                                   hasMore  |-> out.total > trace.offset + trace.limit]
                        /\ pc' = "closing"
                        /\ UNCHANGED trace
    /\ UNCHANGED <<fs, store, cmd, contact_db, session_db, message_dbs, initialized,
                   contacts_map, conns, success>>

\* the connections WeChatDatabaseV4.close closes
Closed == ({contact_db, session_db} \ {NoPath}) \cup Range(message_dbs)

\* reader.close(), the last statement of every branch
Close ==
    /\ pc = "closing"
    /\ conns' = conns \ Closed
    /\ pc' = "done"
    /\ UNCHANGED <<fs, store, cmd, contact_db, session_db, message_dbs, initialized,
                   contacts_map, success, trace, out>>

Next ==
    \/ InitDatabase
    \/ GetContacts
    \/ GetGroups
    \/ GetMessages
    \/ GetStatus
    \/ Emit
    \/ Close

----------------------------------------------------------------------------
(* Initial states: a storage root, the contents of its stores and a        *)
(* command, with a freshly constructed reader (__init__).                  *)

Commands == {"init", "contacts", "groups", "messages", "status"}

Fresh ==
    /\ cmd \in Commands
    /\ pc = "start"
    /\ contact_db = NoPath
    /\ session_db = NoPath
    /\ message_dbs = <<>>
    /\ initialized = FALSE
    /\ contacts_map = <<>>
    /\ conns = {}
    /\ success = FALSE
    /\ trace = NoTrace
    /\ out = <<>>

ContactRow(username, type, nick) ==
    [username |-> username, type |-> type, nick |-> nick, remark |-> NullV]

MessageRow(id, create_time, content) ==
    [local_id |-> IntV(id), server_id |-> NullV, local_type |-> IntV(1),
     sender |-> IF id % 2 = 1 THEN TextV("bob") ELSE NullV,
     create_time |-> create_time, content |-> content]

DefaultContactStore ==
    [schema |-> "v4", rows |-> <<ContactRow(TextV("alice"), IntV(1), TextV("Al"))>>,
     newFault |-> "none", oldFault |-> "none"]

DefaultShard ==
    [table |-> TableName("alice"), name2id |-> TRUE, fault |-> "none",
     rows |-> <<MessageRow(1, IntV(1), TextV("hi"))>>]

DefaultStore(files) ==
    [contact |-> DefaultContactStore,
     shards  |-> [p \in files |-> DefaultShard],
     my_wxid |-> "bob",
     zstd    |-> TRUE]

\* a root given by the files of each kind it holds
Root(contacts, sessions, rootIdx, messageDir, messageIdx, msgDir, msgNames, bad) ==
    LET files == contacts \cup sessions
                 \cup {MessageName(i) : i \in rootIdx}
                 \cup {Join("message", MessageName(i)) : i \in messageIdx}
                 \cup {Join("Msg", n) : n \in msgNames}
        has(d) == \E f \in files : StartsWith(f, d \o "/")
    IN  [files |-> files,
         dirs  |-> {d \in {"contact", "session", "message", "Msg"} :
                       \/ has(d)
                       \/ d = "message" /\ messageDir
                       \/ d = "Msg" /\ msgDir},
         bad   |-> bad]

MsgNames == {"MSG0.db", "MSG1.db", "MSG.txt", "xMSG.db"}

\* the sets of indices i for which message_<i>.db exists
IndexSets == SUBSET (0..(MaxIdx - 1))

\* roots that vary the contact and session stores
ContactRoots ==
    {Root(cs, ss, idx, FALSE, {}, FALSE, {}, {}) :
        cs \in SUBSET Range(ContactCandidates), ss \in SUBSET Range(SessionCandidates),
        idx \in {{}, {0}}}

\* roots that vary the shard files of the three layouts
ShardRoots ==
    {Root(cs, {}, idx, md, IF md THEN midx ELSE {}, gd, IF gd THEN names ELSE {}, {}) :
        cs \in {{}, {"contact.db"}},
        idx \in IndexSets,
        md \in BOOLEAN, midx \in {{}, {0}, {0, 1}, {1}},
        gd \in BOOLEAN, names \in {{}, {"MSG0.db"}, MsgNames}}

\* roots with as many shard files as the enumeration accepts, and one more
CapRoots ==
    {Root({"contact.db"}, {}, idx, FALSE, {}, FALSE, {}, {}) :
        idx \in {0..(RangeCap - 1), 0..RangeCap}}

\* any one existing file, or none, cannot be opened
InitLayout ==
    /\ \/ \E r \in ContactRoots \cup ShardRoots :
            \E bad \in {{}} \cup {{f} : f \in r.files} :
               /\ fs = [r EXCEPT !.bad = bad]
               /\ store = DefaultStore(r.files)
       \/ \E r \in CapRoots :
            /\ fs = r
            /\ store = DefaultStore(r.files)
    /\ Fresh

Init == InitLayout

Spec == Init /\ [][Next]_vars


\* sequences over S of length at most n
RECURSIVE SeqsUpTo(_, _)
SeqsUpTo(S, n) ==
    IF n = 0 THEN {<<>>}
    ELSE SeqsUpTo(S, n - 1) \cup {Append(q, x) : q \in {r \in SeqsUpTo(S, n - 1) : Len(r) = n - 1}, x \in S}

ContactNames ==
    {"alice", "gh_abc", "ghost", "GH_x", "gh", "filehelper", "FileHelper", "floatbottle",
     "medianote", "fmessage", "g@chatroom"}

ContactRows ==
    {ContactRow(u, t, n) :
        u \in {NullV} \cup {TextV(x) : x \in ContactNames},
        t \in {NullV, IntV(1), IntV(4)},
        n \in {NullV, TextV("Nick")}}

\* a root whose only store is MicroMsg.db, with any contact table
InitContacts ==
    /\ fs = Root({"MicroMsg.db"}, {}, {0}, FALSE, {}, FALSE, {}, {})
    /\ \E schema \in {"v4", "old", "none"}, rows \in SeqsUpTo(ContactRows, MaxContactRows),
          f1 \in Faults, f2 \in Faults :
         store = [DefaultStore(fs.files) EXCEPT
                     !.contact = [schema |-> schema, rows |-> rows,
                                  newFault |-> f1, oldFault |-> f2]]
    /\ Fresh

SpecContacts == InitContacts /\ [][Next]_vars

CreateTimes == {NullV} \cup {IntV(t) : t \in 1..MaxTime}

\* the tables of n rows with any create_time, local_id in insertion order
TablesUpTo(n) ==
    {[i \in 1..Len(ts) |-> MessageRow(i, ts[i], TextV("hi"))] : ts \in SeqsUpTo(CreateTimes, n)}

ShardModes ==
    {[name2id |-> TRUE, fault |-> "none"], [name2id |-> FALSE, fault |-> "none"],
     [name2id |-> TRUE, fault |-> "probe"], [name2id |-> TRUE, fault |-> "join"],
     [name2id |-> TRUE, fault |-> "both"]}

ShardsWith(users, modes, rowsBound) ==
    {[table |-> TableName(u), name2id |-> m.name2id, fault |-> m.fault, rows |-> rows] :
        u \in users, m \in modes, rows \in TablesUpTo(rowsBound)}

DataModes == {m \in ShardModes : m.fault = "none"}

\* two shards that can be read: the first holds any table of either
\* conversation, the second any shorter table of alice
DataShards ==
    {[s0 |-> s0, s1 |-> s1] :
        s0 \in ShardsWith(Usernames, DataModes, MaxRows),
        s1 \in ShardsWith({"alice"}, {m \in DataModes : m.name2id}, MaxRows - 1)}

\* two shards of alice with at most one row each, failing in any way
FaultyShards ==
    {[s0 |-> s0, s1 |-> s1] :
        s0 \in ShardsWith({"alice"}, ShardModes, 1),
        s1 \in ShardsWith({"alice"}, ShardModes, 1)}

\* a root with two shards holding any tables (the second shard file may be
\* one that cannot be opened), or a root with no shard
InitMessages ==
    /\ \/ \E sh \in DataShards \cup FaultyShards :
            \E bad \in IF sh \in FaultyShards THEN {{}, {MessageName(1)}} ELSE {{}} :
               /\ fs = Root({Join("contact", "contact.db")}, {}, {0, 1}, FALSE, {}, FALSE, {}, bad)
               /\ store = [DefaultStore(fs.files) EXCEPT
                              !.shards[MessageName(0)] = sh.s0, !.shards[MessageName(1)] = sh.s1]
       \/ /\ fs = Root({Join("contact", "contact.db")}, {}, {}, FALSE, {}, FALSE, {}, {})
          /\ store = DefaultStore(fs.files)
    /\ Fresh

SpecMessages == InitMessages /\ [][Next]_vars

\* the bytes of the model
Bytes == {FrameMagic, InvalidByte, "a"}

RECURSIVE BytesUpTo(_)
BytesUpTo(n) ==
    IF n = 0 THEN {""}
    ELSE BytesUpTo(n - 1) \cup {b \o c : b \in {x \in BytesUpTo(n - 1) : Len(x) = n - 1}, c \in Bytes}

\* raw message_content values
Payloads ==
    {BlobV(b) : b \in BytesUpTo(MaxPayload)} \cup {TextV(""), TextV("hi"), NullV, IntV(7)}

\* a root with one shard of two rows with any message_content, with or
\* without the zstandard module
InitDecode ==
    /\ fs = Root({Join("contact", "contact.db")}, {}, {0}, FALSE, {}, FALSE, {}, {})
    /\ \E c1 \in {TextV("ok"), NullV}, c2 \in Payloads, zstd \in BOOLEAN, m \in ShardModes :
         store = [DefaultStore(fs.files) EXCEPT
                     !.zstd = zstd,
                     !.shards[MessageName(0)] =
                        [table |-> TableName("alice"), name2id |-> m.name2id,
                         fault |-> m.fault,
                         rows |-> <<MessageRow(1, IntV(1), c1), MessageRow(2, IntV(2), c2)>>]]
    /\ Fresh

SpecDecode == InitDecode /\ [][Next]_vars

\* the type codes of class MessageType
MessageType == {1, 3, 34, 42, 43, 47, 48, 49, 50, 10000, 10002}

\* local_type values that are no code of the enumeration
OtherTypes == {IntV(0), IntV(2), IntV(51), IntV(10001), NullV, TextV("text")}

LocalTypes == {IntV(c) : c \in MessageType} \cup OtherTypes

\* a message row with a given local_type
TypedRow(id, local_type) ==
    [MessageRow(id, IntV(id), TextV("hi")) EXCEPT !.local_type = local_type]

\* a root with one shard of two rows with any local_type
InitTypes ==
    /\ fs = Root({Join("contact", "contact.db")}, {}, {0}, FALSE, {}, FALSE, {}, {})
    /\ \E t1 \in LocalTypes, t2 \in LocalTypes :
         store = [DefaultStore(fs.files) EXCEPT
                     !.shards[MessageName(0)] =
                        [table |-> TableName("alice"), name2id |-> TRUE, fault |-> "none",
                         rows |-> <<TypedRow(1, t1), TypedRow(2, t2)>>]]
    /\ Fresh

SpecTypes == InitTypes /\ [][Next]_vars

----------------------------------------------------------------------------
(* Properties.                                                             *)

\* get_messages has returned to main()
Returned == pc = "emit" /\ cmd = "messages" /\ trace.op = "get_messages"

\* C1: the list get_messages returns is sorted non-decreasingly by
\* create_time, whatever the shards hold and however many of them hold the
\* conversation's table.
C1_SortedByCreateTime ==
    Returned =>
        \A i \in 1..Len(out.messages) : \A j \in 1..Len(out.messages) :
            i < j => /\ out.messages[i].create_time.t = "int"
                     /\ out.messages[j].create_time.t = "int"
                     /\ out.messages[i].create_time.v <= out.messages[j].create_time.v

\* three messages from two shards, gathered newest-first per shard, come
\* back with an older one before a newer one
C1_Witness ==
    /\ Returned
    /\ Len(out.messages) = 3
    /\ out.messages[1].create_time.v < out.messages[3].create_time.v
    /\ \A p \in Range(message_dbs) : store.shards[p].table = TableName(trace.username)

\* every shard that is open fails when it is queried
AllShardsFail == \A p \in Range(message_dbs) : store.shards[p].fault \in {"probe", "both"}

\* C2: get_messages never propagates an exception: it returns a (list,
\* count) pair for any shards and any stored rows, NULL columns included,
\* and ([], 0) when there are no shards or every shard fails.
C2_NeverRaises ==
    (trace.op = "get_messages" /\ pc \in {"emit", "crashed"}) =>
        /\ ~trace.raised
        /\ (message_dbs = <<>> \/ AllShardsFail) => (out.messages = <<>> /\ out.total = 0)

\* get_status has run in the init or status branch
StatusPrinted == cmd \in {"init", "status"} /\ pc \in {"closing", "done"}

\* C3: when init_database has not succeeded, get_status reports
\* initialized = false together with zero counts (the claim adds that no
\* store is flagged present; the counts alone decide it).
C3_ZeroStatusBeforeInit ==
    (StatusPrinted /\ ~success) =>
        /\ out.initialized = FALSE
        /\ out.messageDbCount = 0
        /\ out.contactCount = 0

\* C4: every connection opened during a top-level operation is closed by
\* the time the operation ends, on every exit path.
C4_AllClosedAtExit == pc \in {"done", "crashed"} => conns = {}

\* the files of the root that init_database would open as shards
ShardFiles == {f \in fs.files : \E l \in Perms(ListDir("Msg")) : f \in Range(ShardCandidates(l))}

\* the rows a readable shard holding the table contributes
Contribution(path, username, limit, offset, start_time) ==
    IF store.shards[path].table = TableName(username)
       /\ store.shards[path].fault \notin {"probe", "both"}
    THEN Len(LimitOffset(SinceFilter(store.shards[path].rows, start_time), limit, offset))
    ELSE 0

RECURSIVE Contributions(_)
Contributions(paths) ==
    IF paths = <<>> THEN 0
    ELSE Contribution(Head(paths), trace.username, trace.limit, trace.offset, trace.start_time)
         + Contributions(Tail(paths))

\* C5: a shard that cannot be opened or read does not abort the aggregate:
\* init_database still returns True when a contact store exists, and
\* get_messages returns the messages of all the other shards that hold the
\* conversation's table.
C5_BadShardSkipped ==
    /\ (pc # "start" /\ fs.bad # {} /\ fs.bad \subseteq ShardFiles
          /\ FirstExisting(ContactCandidates) # NoPath) => success
    /\ Returned => Len(out.messages) = Contributions(message_dbs)

\* get_contacts or get_groups has run
Listed == trace.op \in {"get_contacts", "get_groups"}

\* C6: the older-schema query is attempted only after the newer-schema
\* query failed with a missing table or column; any other failure of the
\* newer query does not fall back and is reported.
C6_FallbackOnlyOnMissingSchema ==
    Listed =>
        /\ trace.oldTried => trace.newOutcome = "nosuch"
        /\ trace.newOutcome \in {"locked", "corrupt"} => trace.logged

SystemIds == {"filehelper", "floatbottle", "medianote", "fmessage"}

\* the rows the claim says the older schema keeps
KeptByClaim(row) ==
    /\ row.type # IntV(4)
    /\ ~(row.username.t = "text" /\ StartsWith(row.username.v, "gh_"))
    /\ ~(row.username.t = "text" /\ row.username.v \in SystemIds)

\* get_contacts has returned the rows of the older schema to main()
OldListed ==
    /\ cmd = "contacts" /\ pc = "emit" /\ trace.oldTried /\ ~trace.logged
    /\ \A i \in 1..Len(store.contact.rows) :
          store.contact.rows[i].username.t = "text" /\ store.contact.rows[i].type.t = "int"

\* C7: on the older schema get_contacts returns a row if and only if its
\* Type is not 4, its identifier does not begin with the three characters
\* gh_ and is not one of the four system identifiers.
C7_OldSchemaDenylist ==
    OldListed =>
        {out[i].wxid : i \in 1..Len(out)} =
        {r.username.v : r \in {x \in Range(store.contact.rows) : KeptByClaim(x)}}

\* the stores init_database opens before the shards can be opened
StoresOpen ==
    /\ ~ConnectRaises(FirstExisting(ContactCandidates))
    /\ ~ConnectRaises(FirstExisting(SessionCandidates))

\* C8: init_database opens the first of contact/contact.db, contact.db,
\* MicroMsg.db, Msg/MicroMsg.db that exists and only that one, and returns
\* True if and only if one of the four exists, with or without shards
\* (stated for the roots whose contact and session stores can be opened).
C8_ContactStoreSelection ==
    (pc # "start" /\ StoresOpen) =>
        /\ success <=> (\E i \in 1..4 : Exists(ContactCandidates[i]))
        /\ \A i \in 1..4 :
              (contact_db = ContactCandidates[i]) <=>
                 (Exists(ContactCandidates[i]) /\ \A j \in 1..(i - 1) : ~Exists(ContactCandidates[j]))
        /\ pc \notin {"done", "crashed"} =>
              conns \cap Range(ContactCandidates) = {contact_db} \ {NoPath}

\* the indices 0..k-1, k the first index whose message file is missing in dir
RECURSIVE FirstMissing(_, _)
FirstMissing(dir, i) ==
    IF i < RangeCap /\ Join(dir, MessageName(i)) \in fs.files THEN FirstMissing(dir, i + 1) ELSE i

\* the shard list the three-way choice prescribes, as the claim states it
PrescribedShards ==
    IF "message_0.db" \in fs.files
    THEN {[i \in 1..FirstMissing("", 0) |-> MessageName(i - 1)]}
    ELSE IF "message" \in fs.dirs
    THEN {[i \in 1..FirstMissing("message", 0) |-> Join("message", MessageName(i - 1))]}
    ELSE IF "Msg" \in fs.dirs
    THEN Perms({f \in fs.files : /\ StartsWith(f, "Msg/MSG")
                                 /\ EndsWith(f, ".db")})
    ELSE {<<>>}

\* C9: the shard list is the prefix enumeration of message_<i>.db in the
\* root if message_0.db is there, otherwise the one in message/ if that
\* directory exists, otherwise the MSG*.db files of Msg/; layouts are never
\* mixed and no file after a gap is included (stated for the roots whose
\* contact and session stores can be opened).
C9_ShardLayoutChoice == (pc # "start" /\ StoresOpen) => message_dbs \in PrescribedShards

\* the conversation table of the one shard of the decoder roots
OnlyShard == store.shards[MessageName(0)]

\* the raw message_content of the row a message was built from
RawOf(m) == (CHOOSE r \in Range(OnlyShard.rows) : r.local_id = m.local_id).content

\* get_messages has returned after reading the one shard
Decoded ==
    /\ Returned
    /\ OnlyShard.table = TableName(trace.username)
    /\ OnlyShard.fault \notin {"probe", "both"}

\* C10: content decoding is total: every fetched row becomes a message
\* whose content is a string, whatever the raw message_content and with or
\* without compression support, and a text payload is passed through
\* unchanged.
C10_DecodeTotal ==
    Decoded =>
        /\ Len(out.messages) =
              Len(LimitOffset(SinceFilter(OnlyShard.rows, trace.start_time),
                              trace.limit, trace.offset))
        /\ \A i \in 1..Len(out.messages) :
              /\ out.messages[i].content.t = "text"
              /\ RawOf(out.messages[i]).t = "text" =>
                    out.messages[i].content = RawOf(out.messages[i])

\* both rows were fetched, the newer holds bytes that are neither a frame
\* nor valid UTF-8 and the module is installed
C10_Witness ==
    /\ Decoded
    /\ Len(out.messages) = 2
    /\ store.zstd
    /\ RawOf(out.messages[2]) = BlobV("aX")
    /\ out.messages[2].content = TextV("a")
    /\ RawOf(out.messages[1]).t = "text"

\* the messages branch of main() has printed what get_messages returned
Emitted == cmd = "messages" /\ pc = "closing" /\ success /\ trace.op = "get_messages"

\* the local_type of the row a printed message was built from
SourceType(d) ==
    (CHOOSE r \in Range(OnlyShard.rows) : "msg_" \o ToString(r.local_id.v) = d.id).local_type

\* the local_type is one of the eleven codes of the enumeration
Enumerated(local_type) == local_type.t = "int" /\ local_type.v \in MessageType

\* C11: the type name of a printed message is a name other than 'unknown'
\* exactly when the row's local_type is one of the eleven enumerated codes
\* (1, 3, 34, 42, 43, 47, 48, 49, 50, 10000, 10002), and two different
\* enumerated codes never share a name.
C11_TypeNamesCoverEnumeration ==
    Emitted =>
        \A i \in 1..Len(out.messages) :
            /\ Enumerated(SourceType(out.messages[i])) <=> out.messages[i].type # "unknown"
            /\ \A j \in 1..Len(out.messages) :
                  (/\ Enumerated(SourceType(out.messages[i]))
                   /\ Enumerated(SourceType(out.messages[j]))
                   /\ SourceType(out.messages[i]) # SourceType(out.messages[j]))
                  => out.messages[i].type # out.messages[j].type

\* the open shards that hold the conversation's table
HoldingShards ==
    {i \in 1..Len(message_dbs) : store.shards[message_dbs[i]].table = TableName(trace.username)}

\* the one shard that holds it
TheShard == store.shards[message_dbs[CHOOSE i \in HoldingShards : TRUE]]

\* get_messages was called with a limit and an offset that are not negative
\* and the table is in exactly one shard
SinglePage == Cardinality(HoldingShards) = 1 /\ trace.limit >= 0 /\ trace.offset >= 0

\* the returned messages are the rows ranked offset+1 .. offset+limit of the
\* selected rows, newest first
Ranked ==
    \E rs \in OrderedBy(SinceFilter(TheShard.rows, trace.start_time), CreateTimeKey, TRUE) :
        LET page == LimitOffset(rs, trace.limit, trace.offset)
        IN  /\ Len(out.messages) = Len(page)
            /\ {out.messages[i].local_id : i \in 1..Len(out.messages)} =
                  {page[i].local_id : i \in 1..Len(page)}

\* C12: with a limit >= 0 and an offset >= 0, when exactly one shard holds
\* the conversation's table get_messages returns at most limit messages,
\* the rows ranked offset+1 .. offset+limit newest-first in ascending order,
\* with total <= limit, so the printed hasMore is false however many rows
\* the table holds; hasMore is true only when more than one shard holds
\* the table.
C12_SingleShardNeverHasMore ==
    /\ (Returned /\ SinglePage) =>
          /\ Len(out.messages) <= trace.limit
          /\ out.total <= trace.limit
          /\ TheShard.fault \notin {"probe", "both"} => Ranked
          /\ \A i \in 1..Len(out.messages) : \A j \in 1..Len(out.messages) :
                i < j => out.messages[i].create_time.v <= out.messages[j].create_time.v
    /\ (Emitted /\ SinglePage) => (out.total <= trace.limit /\ ~out.hasMore)
    /\ (Emitted /\ trace.limit >= 0 /\ trace.offset >= 0 /\ out.hasMore) =>
          Cardinality(HoldingShards) > 1

\* the one table holds more rows than offset + limit, the newest row alone
\* was printed and hasMore is false
C12_Witness ==
    /\ Emitted /\ SinglePage
    /\ trace.limit = 1 /\ trace.offset = 0 /\ trace.start_time = 0
    /\ Len(TheShard.rows) > trace.offset + trace.limit
    /\ Len(out.messages) = 1
    /\ out.total = 1
    /\ ~out.hasMore


----------------------------------------------------------------------------
(* The layout resolver on roots all of whose files can be opened.          *)

\* with no file that cannot be opened, init_database selects the first
\* existing contact store, returns True exactly when there is one, and
\* leaves the shard list of the three-way choice
LayoutWhenAllOpen ==
    fs.bad = {} => (C8_ContactStoreSelection /\ C9_ShardLayoutChoice)

\* a shard whose queries raise is skipped and the shards that can be read
\* contribute all the rows their queries select
ReadableShardsContribute == Returned => Len(out.messages) = Contributions(message_dbs)
====
